---- MODULE Spec2Model ----
(***************************************************************************)
(* Model of itertools' GroupingMap (src/grouping_map.rs): the aggregate    *)
(* loop over an iterator of (key, value) pairs and the four operations     *)
(* built on it (fold, fold_first, collect, count).                         *)
(*                                                                         *)
(* An Option<T> is a sequence of length at most one: None is << >> and     *)
(* Some(x) is << x >>.  A HashMap<K, R> is a function whose DOMAIN is the  *)
(* set of keys that have an entry.                                         *)
(***************************************************************************)
EXTENDS Integers, Sequences, FiniteSets, TLC

\* Bounds of the enumerated inputs.
MaxLen == 3
MaxKey == 1
MaxVal == 1

VARIABLES
    input,            \* the items the source iterator yields, in order
    iter,             \* self.iter: the items not yet pulled
    destination_map,  \* the HashMap built by aggregate
    calls,            \* invocations of aggregate's `operation` callback
    opcalls,          \* invocations of the caller's `operation` by fold / fold_first
    pc,               \* "loop" inside the for loop, "done" once the map is returned
    method,           \* the terminal operation that consumes the GroupingMap
    container,        \* the type parameter C of collect
    operation,        \* the caller's closure handed to fold / fold_first
    init              \* the `init` argument of fold

vars == <<input, iter, destination_map, calls, opcalls, pc,
          method, container, operation, init>>

----------------------------------------------------------------------------
\* Option<T>

None == << >>

Some(x) == << x >>

is_some(o) == Len(o) = 1

unwrap_or(o, d) == IF is_some(o) THEN o[1] ELSE d

----------------------------------------------------------------------------
\* HashMap<K, R>

HashMap_new == << >>

\* remove that hands out the entry but leaves it in the map (a get).
remove_keeps_entry(map, key) ==
    [acc |-> IF key \in DOMAIN map THEN Some(map[key]) ELSE None,
     map |-> map]

\* remove that takes the entry out but loses it.
remove_loses_acc(map, key) ==
    [acc |-> None,
     map |-> [k \in (DOMAIN map) \ {key} |-> map[k]]]

\* remove that empties the map (a drain).
remove_clears(map, key) ==
    [acc |-> IF key \in DOMAIN map THEN Some(map[key]) ELSE None,
     map |-> << >>]

\* HashMap::remove: the entry taken out (if any) and the map without it.
remove(map, key) ==
    [acc |-> IF key \in DOMAIN map THEN Some(map[key]) ELSE None,
     map |-> [k \in (DOMAIN map) \ {key} |-> map[k]]]

\* HashMap::insert
insert(map, key, value) ==
    [k \in (DOMAIN map) \cup {key} |-> IF k = key THEN value ELSE map[k]]

----------------------------------------------------------------------------
\* The closures

\* count's step adding the value instead of one.
Operation_incr_adds(name, acc, key, val) ==
    CASE name = "add"  -> acc + val
      [] name = "incr" -> acc + val
      [] name = "keep" -> acc
      [] name = "mix"  -> 2 * acc + val + key

\* The caller's `operation: FnMut(R, &K, V) -> R` of fold and fold_first:
\* the doctests' |acc, _, val| acc + val, count's |acc, _, _| acc + 1, one that
\* ignores the value, and one that depends on the order and on the key.
Operation(name, acc, key, val) ==
    CASE name = "add"  -> acc + val
      [] name = "incr" -> acc + 1
      [] name = "keep" -> acc
      [] name = "mix"  -> 2 * acc + val + key

\* A closure invocation yields its return value and the invocations of the
\* caller's operation it made.
Invocation(a, k, v) == [acc |-> a, key |-> k, val |-> v]

\* fold's closure restarting from init at every element.
fold_closure_reinit(init_, operation_, acc, key, val) ==
    [ret |-> Some(Operation(operation_, init_, key, val)),
     invoked |-> << Invocation(init_, key, val) >>]

\* fold's closure: |acc, key, val| Some(operation(acc.unwrap_or_else(|| init.clone()), key, val))
fold_closure(init_, operation_, acc, key, val) ==
    LET a == unwrap_or(acc, init_)
    IN  [ret |-> Some(Operation(operation_, a, key, val)),
         invoked |-> << Invocation(a, key, val) >>]

\* fold_first's closure as acc.map(|acc| operation(acc, key, val)): no seed.
fold_first_closure_no_seed(operation_, acc, key, val) ==
    IF is_some(acc)
    THEN [ret |-> Some(Operation(operation_, acc[1], key, val)),
          invoked |-> << Invocation(acc[1], key, val) >>]
    ELSE [ret |-> None, invoked |-> << >>]

\* fold_first's closure invoking operation on the first element too.
fold_first_closure_seed_folded(operation_, acc, key, val) ==
    LET a == unwrap_or(acc, val)
    IN  [ret |-> Some(Operation(operation_, a, key, val)),
         invoked |-> << Invocation(a, key, val) >>]

\* fold_first's closure: Some(match acc { Some(acc) => operation(acc, key, val), None => val })
fold_first_closure(operation_, acc, key, val) ==
    IF is_some(acc)
    THEN [ret |-> Some(Operation(operation_, acc[1], key, val)),
          invoked |-> << Invocation(acc[1], key, val) >>]
    ELSE [ret |-> Some(val), invoked |-> << >>]

\* C::default() for the containers Vec<V> and HashSet<V>
Default(C) == IF C = "Vec" THEN << >> ELSE {}

\* extend that puts the value in front.
extend_front(C, acc, v) == IF C = "Vec" THEN << v >> \o acc ELSE acc \cup {v}

\* acc.extend(Some(v)) for the containers Vec<V> and HashSet<V>
extend(C, acc, v) == IF C = "Vec" THEN Append(acc, v) ELSE acc \cup {v}

\* collect's closure
collect_closure(C, acc, key, v) ==
    [ret |-> Some(extend(C, unwrap_or(acc, Default(C)), v)), invoked |-> << >>]

\* The doctest's closure restarting the sum at every element.
doc_closure_restart(acc, key, val) ==
    [ret |-> IF val = 0 \/ val = 10 THEN None ELSE Some(val),
     invoked |-> << >>]

\* The closure of aggregate's doctest: None on 0 and 10, else the running sum.
doc_closure(acc, key, val) ==
    [ret |-> IF val = 0 \/ val = 10 THEN None ELSE Some(unwrap_or(acc, 0) + val),
     invoked |-> << >>]

\* A caller-supplied `operation: FnMut(Option<R>, &K, V) -> Option<R>` of
\* aggregate: at each invocation it either discards the accumulator (None) or
\* stores a new one that depends on the old one and on the value.
caller_closure(discard, acc, key, val) ==
    [ret |-> IF discard THEN None ELSE Some(unwrap_or(acc, 0) + val + 1),
     invoked |-> << >>]

----------------------------------------------------------------------------
\* The inputs

\* data.into_iter().map(|n| (n % m, n))
KeyBy(data, m) == [i \in 1..Len(data) |-> << data[i] % m, data[i] >>]

Range(a, b) == [i \in 1..(b - a + 1) |-> a + i - 1]

DocAggregateInput == KeyBy(<<2, 8, 5, 7, 9, 0, 4, 10>>, 4)

DocFoldInput == KeyBy(Range(1, 7), 3)

DocCollectInput == KeyBy(<<0, 1, 2, 3, 4, 5, 6, 2, 3, 6>>, 3)

Keys == 0..MaxKey

Vals == 0..MaxVal

Inputs ==
    (UNION {[1..n -> Keys \X Vals] : n \in 0..MaxLen})
        \cup {DocAggregateInput, DocFoldInput, DocCollectInput}

Call(m, c, o, i) == [method |-> m, container |-> c, operation |-> o, init |-> i]

Configs ==
    {Call("aggregate", "-", "-", 0), Call("aggregate_doc", "-", "-", 0),
     Call("count", "-", "-", 0)}
        \cup {Call("fold", "-", "add", 0)}
        \cup {Call("fold", "-", o, 1) : o \in {"add", "keep", "mix"}}
        \cup {Call("fold_first", "-", o, 0) : o \in {"add", "keep", "mix"}}
        \cup {Call("collect", c, "-", 0) : c \in {"Vec", "HashSet"}}

----------------------------------------------------------------------------
\* new(iter), then a terminal operation entered: destination_map = HashMap::new()
Init ==
    /\ input \in Inputs
    /\ iter = input
    /\ destination_map = HashMap_new
    /\ calls = << >>
    /\ opcalls = << >>
    /\ pc = "loop"
    /\ \E cfg \in Configs :
          /\ method = cfg.method
          /\ container = cfg.container
          /\ operation = cfg.operation
          /\ init = cfg.init

\* The item the for loop pulls next: (key, val).
Key == Head(iter)[1]

Val == Head(iter)[2]

\* let acc = destination_map.remove(&key): the accumulator handed to the callback
Acc == remove(destination_map, Key).acc

\* One iteration of aggregate's for loop; res is what the callback does when
\* invoked as operation(acc, &key, val).
aggregate_loop(res) ==
    /\ pc = "loop"
    /\ iter # << >>
    /\ LET removed == remove(destination_map, Key)
           op_res == res.ret
       IN  /\ destination_map' = IF is_some(op_res)
                                 THEN insert(removed.map, Key, op_res[1])
                                 ELSE removed.map
           /\ calls' = Append(calls, [acc |-> removed.acc, key |-> Key, val |-> Val,
                                      ret |-> op_res])
           /\ opcalls' = opcalls \o res.invoked
    /\ iter' = Tail(iter)
    /\ UNCHANGED <<input, pc, method, container, operation, init>>

\* aggregate with an arbitrary caller-supplied callback
aggregate ==
    /\ method = "aggregate"
    /\ \E discard \in BOOLEAN : aggregate_loop(caller_closure(discard, Acc, Key, Val))

\* aggregate with the doctest's callback
aggregate_doc ==
    /\ method = "aggregate_doc"
    /\ aggregate_loop(doc_closure(Acc, Key, Val))

fold ==
    /\ method = "fold"
    /\ aggregate_loop(fold_closure(init, operation, Acc, Key, Val))

fold_first ==
    /\ method = "fold_first"
    /\ aggregate_loop(fold_first_closure(operation, Acc, Key, Val))

collect ==
    /\ method = "collect"
    /\ aggregate_loop(collect_closure(container, Acc, Key, Val))

\* self.fold(0, |acc, _, _| acc + 1)
count ==
    /\ method = "count"
    /\ aggregate_loop(fold_closure(0, "incr", Acc, Key, Val))

\* The iterator is exhausted: the loop ends and destination_map is returned.
Return ==
    /\ pc = "loop"
    /\ iter = << >>
    /\ pc' = "done"
    /\ UNCHANGED <<input, iter, destination_map, calls, opcalls,
                   method, container, operation, init>>

Next ==
    \/ aggregate
    \/ aggregate_doc
    \/ fold
    \/ fold_first
    \/ collect
    \/ count
    \/ Return

Spec == Init /\ [][Next]_vars

----------------------------------------------------------------------------
\* Vocabulary of the properties

\* The items already pulled from the iterator.
Consumed == SubSeq(input, 1, Len(input) - Len(iter))

KeysOf(s) == {s[i][1] : i \in 1..Len(s)}

\* The values of the group of key k, in encounter order.
RECURSIVE GroupValues(_, _)
GroupValues(s, k) ==
    IF s = << >> THEN << >>
    ELSE (IF Head(s)[1] = k THEN << Head(s)[2] >> ELSE << >>) \o GroupValues(Tail(s), k)

RangeOf(s) == {s[i] : i \in 1..Len(s)}

\* The index of the last element before position n whose key is k, or 0.
LastBefore(s, k, n) ==
    LET I == {i \in 1..(n - 1) : i <= Len(s) /\ s[i][1] = k}
    IN  IF I = {} THEN 0 ELSE CHOOSE i \in I : \A j \in I : j <= i

RECURSIVE FoldLeft(_, _, _, _)
FoldLeft(op, a, k, vs) ==
    IF vs = << >> THEN a ELSE FoldLeft(op, Operation(op, a, k, Head(vs)), k, Tail(vs))

RECURSIVE Sum(_)
Sum(vs) == IF vs = << >> THEN 0 ELSE Head(vs) + Sum(Tail(vs))

IsReset(v) == v = 0 \/ v = 10

\* The values of vs that come after its last reset value.
AfterLastReset(vs) ==
    LET R == {i \in 1..Len(vs) : IsReset(vs[i])}
        last == IF R = {} THEN 0 ELSE CHOOSE i \in R : \A j \in R : j <= i
    IN  SubSeq(vs, last + 1, Len(vs))

\* The values the caller's operation was invoked with for key k, in order.
RECURSIVE InvokedVals(_, _)
InvokedVals(s, k) ==
    IF s = << >> THEN << >>
    ELSE (IF Head(s).key = k THEN << Head(s).val >> ELSE << >>) \o InvokedVals(Tail(s), k)

AllKeys == Keys \cup KeysOf(input) \cup DOMAIN destination_map

----------------------------------------------------------------------------
\* C1: when aggregate returns, a key is in the map iff the callback invocation
\* for the last input element bearing that key returned Some, and then the
\* entry is exactly the returned value; a key whose last step returned None or
\* that never occurs is absent, so an empty input gives an empty map.
C1_LastStepDecides ==
    pc = "done" =>
        /\ Len(calls) = Len(input)
        /\ \A k \in AllKeys :
              LET i == LastBefore(input, k, Len(input) + 1)
              IN  IF i > 0 /\ is_some(calls[i].ret)
                  THEN k \in DOMAIN destination_map /\ destination_map[k] = calls[i].ret[1]
                  ELSE k \notin DOMAIN destination_map
        /\ (input = << >> => destination_map = << >>)

\* A key that had an accumulator and lost it at its last step, next to a key that kept one.
C1_Witness ==
    /\ pc = "done"
    /\ method = "aggregate"
    /\ DOMAIN destination_map # {}
    /\ \E i, j \in 1..Len(calls) :
          /\ i < j
          /\ calls[i].key = calls[j].key
          /\ is_some(calls[i].ret)
          /\ ~is_some(calls[j].ret)
          /\ calls[j].key \notin DOMAIN destination_map

\* C2: the callback is invoked exactly once per pulled element, in input order,
\* and its accumulator argument is what the most recent earlier invocation for
\* the same key returned (None if there was none or it returned None).
C2_OneCallPerElement ==
    /\ Len(calls) = Len(input) - Len(iter)
    /\ \A i \in 1..Len(calls) :
          /\ calls[i].key = input[i][1]
          /\ calls[i].val = input[i][2]
          /\ LET p == LastBefore(input, input[i][1], i)
             IN  calls[i].acc = IF p = 0 THEN None ELSE calls[p].ret

\* An invocation that saw a stored accumulator and a later one that saw a discarded one.
C2_Witness ==
    /\ pc = "done"
    /\ method = "aggregate"
    /\ \E i, j, l \in 1..Len(calls) :
          /\ i < j /\ j < l
          /\ calls[i].key = calls[j].key /\ calls[j].key = calls[l].key
          /\ is_some(calls[j].acc)
          /\ ~is_some(calls[j].ret)
          /\ ~is_some(calls[l].acc)

\* C3: with the callback that returns None on a reset value (0 or 10) and
\* otherwise Some(acc.unwrap_or(0) + val), a key of the input is absent from the
\* returned map iff the last value of its group is a reset value, and otherwise
\* its entry is the sum of the group's values after the group's last reset
\* value; the doctest's data gives exactly {0: 4, 1: 14, 3: 7}.
C3_ResetSum ==
    (pc = "done" /\ method = "aggregate_doc") =>
        /\ DOMAIN destination_map \subseteq KeysOf(input)
        /\ \A k \in KeysOf(input) :
              LET g == GroupValues(input, k)
              IN  /\ (k \notin DOMAIN destination_map) <=> IsReset(g[Len(g)])
                  /\ k \in DOMAIN destination_map =>
                        destination_map[k] = Sum(AfterLastReset(g))
        /\ input = DocAggregateInput =>
              /\ destination_map = (0 :> 4 @@ 1 :> 14 @@ 3 :> 7)
              /\ 2 \notin DOMAIN destination_map
              /\ Cardinality(DOMAIN destination_map) = 3

\* A group with a reset in the middle whose later values are summed, and a group ending in a reset.
C3_Witness ==
    /\ pc = "done"
    /\ method = "aggregate_doc"
    /\ \E k \in DOMAIN destination_map :
          LET g == GroupValues(input, k)
          IN  /\ Len(AfterLastReset(g)) < Len(g)
              /\ destination_map[k] # Sum(g)
    /\ \E k \in KeysOf(input) : k \notin DOMAIN destination_map

\* C4: for fold, fold_first, collect and count the keys of the returned map are
\* exactly the distinct keys of the input.
C4_Completeness ==
    (pc = "done" /\ method \in {"fold", "fold_first", "collect", "count"}) =>
        DOMAIN destination_map = KeysOf(input)

C4_Witness ==
    /\ pc = "done"
    /\ method = "fold_first"
    /\ Cardinality(KeysOf(input)) = 2
    /\ Len(input) > 2
    /\ DOMAIN destination_map = KeysOf(input)

\* C5: fold(init, operation) maps every key of the input to the left fold of
\* its group's values, in encounter order, starting from init; an operation that
\* returns acc yields init, and the doctest's data gives {0: 9, 1: 12, 2: 7}.
C5_FoldIsLeftFold ==
    (pc = "done" /\ method = "fold") =>
        /\ \A k \in KeysOf(input) :
              /\ k \in DOMAIN destination_map
              /\ destination_map[k] = FoldLeft(operation, init, k, GroupValues(input, k))
              /\ operation = "keep" => destination_map[k] = init
        /\ (input = DocFoldInput /\ operation = "add" /\ init = 0) =>
              destination_map = (0 :> 9 @@ 1 :> 12 @@ 2 :> 7)

\* Two interleaved groups folded by an operation that depends on order, key and seed.
C5_Witness ==
    /\ pc = "done"
    /\ method = "fold"
    /\ operation = "mix"
    /\ init = 1
    /\ Len(input) <= MaxLen
    /\ \E i \in 1..Len(input) : \E j \in 1..Len(input) : \E l \in 1..Len(input) :
          /\ i < j /\ j < l
          /\ input[i][1] = input[l][1]
          /\ input[i][1] # input[j][1]
          /\ input[i][2] # input[l][2]

\* C6: fold_first(operation) maps every key to the left fold of the group's
\* values after the first, seeded with the first; operation is never invoked
\* for the first element of a group, so a singleton group maps to its value;
\* the doctest's data gives {0: 9, 1: 12, 2: 7}.
C6_FoldFirst ==
    method = "fold_first" =>
        /\ \A k \in AllKeys :
              LET g == GroupValues(Consumed, k)
              IN  InvokedVals(opcalls, k) = IF g = << >> THEN << >> ELSE Tail(g)
        /\ pc = "done" =>
              /\ \A k \in KeysOf(input) :
                    LET g == GroupValues(input, k)
                    IN  /\ k \in DOMAIN destination_map
                        /\ destination_map[k] = FoldLeft(operation, Head(g), k, Tail(g))
                        /\ Len(g) = 1 => destination_map[k] = g[1]
              /\ (input = DocFoldInput /\ operation = "add") =>
                    destination_map = (0 :> 9 @@ 1 :> 12 @@ 2 :> 7)

\* A singleton group next to a group of several values, under an order-dependent operation.
C6_Witness ==
    /\ pc = "done"
    /\ method = "fold_first"
    /\ operation = "mix"
    /\ \E k \in KeysOf(input) : Len(GroupValues(input, k)) = 1
    /\ \E k \in KeysOf(input) :
          LET g == GroupValues(input, k)
          IN  Len(g) >= 2 /\ g[1] # g[2] /\ destination_map[k] # g[1]

\* C7: count() maps each key of the input to the number of elements bearing it;
\* every stored count is at least 1 and a key that never occurs is absent.
C7_Count ==
    (pc = "done" /\ method = "count") =>
        /\ \A k \in KeysOf(input) :
              /\ k \in DOMAIN destination_map
              /\ destination_map[k] = Len(GroupValues(input, k))
        /\ \A k \in DOMAIN destination_map : destination_map[k] >= 1
        /\ \A k \in AllKeys : k \notin KeysOf(input) => k \notin DOMAIN destination_map

\* A key counted more than once and a key that never occurs.
C7_Witness ==
    /\ pc = "done"
    /\ method = "count"
    /\ \E k \in DOMAIN destination_map : destination_map[k] >= 2
    /\ \E k \in Keys : k \notin DOMAIN destination_map

\* C8: collect inserts the values of each key into the key's container one at a
\* time in encounter order, starting from an empty container: after every pulled
\* element a Vec entry is the subsequence of the pulled values bearing the key
\* and a HashSet entry is the set of them; the doctest's data gives
\* {0: {0, 3, 6}, 1: {1, 4}, 2: {2, 5}}.
C8_Collect ==
    method = "collect" =>
        /\ DOMAIN destination_map = KeysOf(Consumed)
        /\ \A k \in KeysOf(Consumed) :
              LET g == GroupValues(Consumed, k)
              IN  destination_map[k] = IF container = "Vec" THEN g ELSE RangeOf(g)
        /\ (pc = "done" /\ input = DocCollectInput /\ container = "HashSet") =>
              destination_map = (0 :> {0, 3, 6} @@ 1 :> {1, 4} @@ 2 :> {2, 5})

\* A Vec holding two different values of one key between which another key was pulled.
C8_Witness ==
    /\ pc = "done"
    /\ method = "collect"
    /\ container = "Vec"
    /\ Cardinality(DOMAIN destination_map) = 2
    /\ \E k \in DOMAIN destination_map :
          /\ Len(destination_map[k]) = 2
          /\ destination_map[k][1] > destination_map[k][2]
          /\ input[2][1] # k

\* C9: in aggregate's documentation example the final keys of the returned map
\* are only 0, 1 and 2.
C9_DocFinalKeys ==
    (pc = "done" /\ method = "aggregate_doc" /\ input = DocAggregateInput) =>
        DOMAIN destination_map \subseteq {0, 1, 2}

\* C10: an iteration for an element of key k leaves every other key's presence
\* in the map and its accumulator as they were.
C10_Frame ==
    [][\A j \in AllKeys :
          (iter = << >> \/ j # Key) =>
              /\ (j \in DOMAIN destination_map) <=> (j \in DOMAIN destination_map')
              /\ j \in DOMAIN destination_map => destination_map'[j] = destination_map[j]]_vars

\* The last element pulled was of one key while another key keeps its accumulator.
C10_Witness ==
    /\ calls # << >>
    /\ \E j \in DOMAIN destination_map :
          /\ j # calls[Len(calls)].key
          /\ \E i \in 1..(Len(calls) - 1) :
                calls[i].key = j /\ calls[i].ret = Some(destination_map[j])
    /\ \E i \in 1..(Len(calls) - 1) : calls[i].key = calls[Len(calls)].key

====
